---- MODULE Spec2Model ----
(***************************************************************************)
(* Model of wireless_connect.py (class ScrcpyHelper): the sequence of      *)
(* bridge-tool (adb) and mirroring-tool (scrcpy) invocations, the          *)
(* connect-with-retry loop, the device-list parsing, and the signal-driven *)
(* cleanup with its one-shot guard.                                        *)
(*                                                                         *)
(* Strings built by the script are modelled structurally:                  *)
(*   - an identifier "name" or "name:port" is [name |-> n, port |-> p],    *)
(*     port = NoPort meaning that the string holds no ':';                 *)
(*   - a line of `adb devices` is [id |-> identifier, state |-> s], the    *)
(*     empty line being BlankLine.                                         *)
(* Every external command is one step; its outcome is chosen by the        *)
(* environment.  A signal is delivered between two steps.                  *)
(***************************************************************************)
EXTENDS Integers, Sequences, FiniteSets, TLC

\* ---------------------------------------------------------------- bounds
MaxSignals == 2
MaxFailN == 3
MaxLines == 2

\* ------------------------------------------------------ program constants
DEFAULT_PORT == 5656
MAX_RETRIES == 3

\* ------------------------------------------------------- value encodings
NoPort == 0
NoRotation == -1
NoCode == -1000
None == "None"
Empty == [name |-> "", port |-> NoPort]

OkCodes == {0, 130, 2}

\* inputs the environment and the command line may supply
ArgIps == {"", "192.168.1.5"}
ArgPorts == {DEFAULT_PORT, 5555}
ArgRotations == {NoRotation, 1}
ArgUsb == BOOLEAN
DeviceIps == {"192.168.1.7"}
SettingValues == {"1"}
ExitCodes == {0, 1, 2, 130, 255}
FileStates == {"ok", "scrcpy_missing", "adb_missing"}
\* the directory the process is started in: the script's, another one that
\* holds an adb that can be run, another one that holds none
StartDirs == {"script_dir", "adb_dir", "empty_dir"}

UsbNames == {"usbA", "device01"}
NetNames == {"192.168.1.5"}
LineStates == {"device", "offline"}
NamesContainingDevice == {"device01"}

BlankLine == [id |-> Empty, state |-> ""]
UsbLines == {[id |-> [name |-> n, port |-> NoPort], state |-> s] :
               n \in UsbNames, s \in LineStates}
NetLines == {[id |-> [name |-> n, port |-> p], state |-> s] :
               n \in NetNames, p \in ArgPorts, s \in LineStates}
Lines == UsbLines \cup NetLines \cup {BlankLine}
DeviceLists == UNION {[1..n -> Lines] : n \in 0..MaxLines}

\* ------------------------------------------------------ string predicates
\* ":" in line
HasColon(line) == line.id.port # NoPort
\* "device" in line
HasDeviceWord(line) == line.state = "device" \/ line.id.name \in NamesContainingDevice
\* bool(line): the line is not the empty string
NonEmptyLine(line) == line # BlankLine
\* f"{device_ip}:{port}"
AddrPort(ip, port) == [name |-> ip, port |-> port]
\* bool(s) for an identifier string
Truthy(id) == id.name # ""

\* ------------------------------------------- transport-mode-switch output
\* The output of `adb tcpip <port>` is "<verb> <word>" or "<verb> <word> mode".
RespVerbs == {"restarting in", "ALREADY RUNNING AS", "error: closed"}
RespWords == {"tcpip", "TCP", "usb"}
Responses == [verb : RespVerbs, word : RespWords, mode : BOOLEAN]
TcpipCodes == {0, 1}

\* str.lower(), as re.I compares
LowerCase(s) ==
  CASE s = "ALREADY RUNNING AS" -> "already running as"
    [] s = "TCP" -> "tcp"
    [] OTHER -> s

\* a pattern that does not require " mode" after "restarting in tcpip"
TcpipPatternMatchesLoose(r) ==
  /\ LowerCase(r.verb) \in {"restarting in", "already running as"}
  /\ LowerCase(r.word) \in {"tcpip", "tcp"}

\* re.search(r"restarting in (tcpip|TCP) mode|already running as (tcpip|TCP)", out, re.I)
TcpipPatternMatches(r) ==
  \/ /\ LowerCase(r.verb) = "restarting in"
     /\ LowerCase(r.word) \in {"tcpip", "tcp"}
     /\ r.mode
  \/ /\ LowerCase(r.verb) = "already running as"
     /\ LowerCase(r.word) \in {"tcpip", "tcp"}

NoResponse == [verb |-> "", word |-> "", mode |-> FALSE]

\* ------------------------------------------------------ device-list parse
\* get_usb_device: first line (header skipped) that is non-empty, has no ':'
\* and contains "device"; its first token.  Empty when there is none.
\* a filter that forgets the ':' test
IsUsbCandidateAnyAddress(line) == NonEmptyLine(line) /\ HasDeviceWord(line)

IsUsbCandidate(line) == NonEmptyLine(line) /\ ~HasColon(line) /\ HasDeviceWord(line)

RECURSIVE FirstMatch(_, _, _)
FirstMatch(lines, i, wantColon) ==
  IF i > Len(lines) THEN Empty
  ELSE IF (IF wantColon THEN HasColon(lines[i]) /\ HasDeviceWord(lines[i])
                        ELSE IsUsbCandidate(lines[i]))
       THEN lines[i].id
       ELSE FirstMatch(lines, i + 1, wantColon)

FirstUsbId(lines) == FirstMatch(lines, 1, FALSE)
\* a detection that never finds an attached wireless device
FirstWirelessIdNever(lines) == Empty

\* detect_wireless_device: first line with ':' and "device"; its first token
FirstWirelessId(lines) == FirstMatch(lines, 1, TRUE)

\* ------------------------------------------------------------------ state
VARIABLES
  device_info,     \* DeviceInfo
  cleanup_done,    \* ScrcpyHelper.cleanup_done
  adb_file,        \* environment: which of scrcpy, adb are present beside the script
  cwd,             \* the working directory of the process (os.getcwd())
  adb_x,           \* environment: os.access(adb, os.X_OK) for the adb beside the script
  pc,              \* position of the interpreter
  exit_code,       \* cleanup's argument
  exit_status,     \* status of the terminated process, NoCode while running
  cleanup_target,  \* cleanup's local target_device
  target_device,   \* start_scrcpy's local target_device
  retries,         \* connect_device's local retries
  failN,           \* environment: number of connection attempts that fail
  devices_out,     \* lines of the last `adb devices` (header skipped), while its reader uses them
  usb_id,          \* the identifier get_usb_device returned (its local device_id)
  wireless_id,     \* detect_wireless_device's local wireless_id
  tcpip_out,       \* output of the tcpip command, until start_scrcpy begins
  tcpip_rc,        \* return code of the tcpip command, likewise
  scrcpy_rc,       \* return code of the mirroring tool
  cmds,            \* history: commands issued, in order
  logged,          \* history: messages given to log_error
  restoreCount,    \* history: calls of restore_device_settings
  sigCount,        \* history: signals delivered
  attempts,        \* history: connection attempts started
  delays,          \* history: retry delays slept
  connectResult,   \* history: how connect_device ended
  readOk,          \* history: which snapshot reads succeeded
  faults,          \* history: <<command, outcome>> of the commands that failed or answered badly
  path,            \* history: how the target was resolved
  pend,            \* statements still to run after the last command's answer
  args             \* parse_arguments: the parsed command line (args = parser.parse_args())

vars == <<device_info, cleanup_done, adb_file, cwd, adb_x, pc, exit_code, exit_status,
          cleanup_target, target_device, retries, failN, devices_out, usb_id,
          wireless_id, tcpip_out, tcpip_rc, scrcpy_rc, cmds, logged,
          restoreCount, sigCount, attempts, delays, connectResult, readOk, faults,
          path, pend, args>>

envVars == <<adb_file, cwd, adb_x>>
cleanupVars == <<cleanup_done, exit_code, cleanup_target, restoreCount>>
connectVars == <<retries, failN, attempts, delays, connectResult>>
localVars == <<devices_out, usb_id, wireless_id, tcpip_out, tcpip_rc>>
sessionVars == <<target_device, scrcpy_rc, readOk>>

\* the command line before it is parsed
NoArgs == [ip |-> "", port |-> DEFAULT_PORT, rotation |-> NoRotation, usb |-> FALSE]

\* DeviceInfo() defaults
DeviceInfo ==
  [device_id |-> Empty, device_ip |-> "", port |-> DEFAULT_PORT,
   rotation |-> NoRotation, mode |-> "wireless",
   original_stay_awake |-> None, original_lockscreen |-> None]

Init ==
  /\ device_info = DeviceInfo
  /\ cleanup_done = FALSE
  /\ adb_file \in FileStates
  /\ cwd \in StartDirs
  /\ adb_x \in BOOLEAN
  /\ pc = "parse_arguments"
  /\ exit_code = 0
  /\ exit_status = NoCode
  /\ cleanup_target = Empty
  /\ target_device = Empty
  /\ retries = 0
  /\ failN = 0
  /\ devices_out = <<>>
  /\ usb_id = Empty
  /\ wireless_id = Empty
  /\ tcpip_out = NoResponse
  /\ tcpip_rc = NoCode
  /\ scrcpy_rc = NoCode
  /\ cmds = <<>>
  /\ logged = {}
  /\ restoreCount = 0
  /\ sigCount = 0
  /\ attempts = 0
  /\ delays = 0
  /\ connectResult = "none"
  /\ readOk = {}
  /\ faults = {}
  /\ path = "none"
  /\ pend = <<>>
  /\ args = NoArgs

Running == pc # "exited"
\* subprocess.run(["./adb", ...]) finds a file it can execute: "./adb" is
\* resolved in the working directory; otherwise the call raises an OSError
\* (FileNotFoundError, PermissionError)
AdbRuns ==
  CASE cwd = "script_dir" -> adb_file # "adb_missing" /\ adb_x
    [] cwd = "adb_dir" -> TRUE
    [] OTHER -> FALSE
Issue(c) == cmds' = Append(cmds, c)
Log(m) == logged' = logged \cup {m}
\* the command c ended with the outcome o, which is a failure or a bad answer
Fault(c, o) == faults' = faults \cup {<<c, o>>}

\* --------------------------------------------------------------- cleanup
\* cleanup that finds no target in USB mode
CleanupTargetNoUsb(di) ==
  IF di.mode # "usb" /\ di.device_ip # "" THEN AddrPort(di.device_ip, di.port)
  ELSE Empty

\* cleanup's choice of target_device
CleanupTarget(di) ==
  IF di.mode = "usb" THEN di.device_id
  ELSE IF di.device_ip # "" THEN AddrPort(di.device_ip, di.port)
  ELSE Empty

\* cleanup without its one-shot guard
CleanupGuardOff(done) == FALSE

\* the one-shot guard at the head of cleanup
CleanupGuard(done) == done

\* cleanup(code) with device_info = di, called where the caller would continue
\* at `cont` if cleanup returned: returns at once when the guard holds, otherwise marks the flag,
\* and either enters restore_device_settings or goes straight to sys.exit.
CleanupWith(di, code, cont) ==
  IF CleanupGuard(cleanup_done)
  THEN /\ pc' = cont
       /\ UNCHANGED cleanupVars
  ELSE /\ cleanup_done' = TRUE
       /\ exit_code' = code
       /\ cleanup_target' = CleanupTarget(di)
       /\ IF Truthy(CleanupTarget(di))
          THEN /\ restoreCount' = restoreCount + 1
               /\ pc' = "restore_check"
          ELSE /\ restoreCount' = restoreCount
               /\ pc' = "cleanup_exit"

Cleanup(code, cont) == CleanupWith(device_info, code, cont)

\* ------------------------------------------- what follows a command's answer
\* After a command has answered, the code reports and reacts in several
\* statements, and a signal handler can run between any two of them.  `pend`
\* holds the statements still to run at pc = "reporting": log_error(m), an
\* assignment, the cleanup(1) of die, sys.exit(1), or the return to the
\* normal flow at a position.
LogOp(m) == [op |-> "log", arg |-> m]
SetOp(f) == [op |-> "set", arg |-> f]
GotoOp(p) == [op |-> "goto", arg |-> p]
CleanupOp(cont) == [op |-> "cleanup", arg |-> cont]
ExitOp == [op |-> "exit", arg |-> "1"]
\* log_error("ADB command failed") in run_adb's except branch, before `raise`
AdbFailed == LogOp("adb_failed")

Then(ops) == pc' = "reporting" /\ pend' = ops

\* a die that reports the message and returns to its caller
DieReturns(m, cont) == Then(<<LogOp(m), GotoOp(cont)>>)

\* die(message): log_error(message), then cleanup(1)
Die(m, cont) == Then(<<LogOp(m), CleanupOp(cont)>>)

\* a failed run_adb command in a try block whose handler calls die(m)
DieFailed(m, cont) == Then(<<AdbFailed, LogOp(m), CleanupOp(cont)>>)

\* a CalledProcessError of run_adb that reaches main's `except Exception`:
\* die("exception"), after which main returns
RaiseFailed == DieFailed("exception", "main_return")

\* an exception raised while cleanup runs (cleanup_done is set) that reaches
\* main's `except Exception`: die logs it, its cleanup(1) returns at once and
\* main returns; a handler run in between returns at once too
Raise == Log("exception") /\ Cleanup(1, "main_return")
\* log_error(message): the next statement is a report
LogError ==
  /\ pc = "reporting"
  /\ Head(pend).op = "log"
  /\ logged' = logged \cup {Head(pend).arg}
  /\ pend' = Tail(pend)
  /\ UNCHANGED <<device_info, cleanupVars, envVars, pc, exit_status, sessionVars,
                 connectVars, localVars, cmds, sigCount, faults, path, args>>

\* a snapshot that stays unset when the read fails
SnapshotOfUnset(out) == IF out = "fail" THEN None ELSE out

\* the value stored in a saved-setting field: the output of `settings get`,
\* or "0" when the command fails (except subprocess.CalledProcessError)
SnapshotOf(out) == IF out = "fail" THEN "0" ELSE out

\* an assignment in an except branch or after a failed loop: the default
\* snapshot "0", device_ip = None from get_device_ip, connect_device's
\* `return False`
Assign ==
  /\ pc = "reporting"
  /\ Head(pend).op = "set"
  /\ device_info' =
       CASE Head(pend).arg = "stay_awake" ->
              [device_info EXCEPT !.original_stay_awake = SnapshotOf("fail")]
         [] Head(pend).arg = "lockscreen" ->
              [device_info EXCEPT !.original_lockscreen = SnapshotOf("fail")]
         [] Head(pend).arg = "ip_none" -> [device_info EXCEPT !.device_ip = ""]
         [] OTHER -> device_info
  /\ connectResult' = IF Head(pend).arg = "return_false" THEN "false" ELSE connectResult
  /\ path' = IF Head(pend).arg = "return_false" THEN "fallback" ELSE path
  /\ pend' = Tail(pend)
  /\ UNCHANGED <<cleanupVars, envVars, pc, exit_status, sessionVars, retries, failN,
                 localVars, cmds, logged, sigCount, attempts, delays, faults, args>>

\* the reports are done and the normal flow goes on
Resume ==
  /\ pc = "reporting"
  /\ Head(pend).op = "goto"
  /\ pc' = Head(pend).arg
  /\ pend' = <<>>
  /\ UNCHANGED <<device_info, cleanupVars, envVars, exit_status, sessionVars,
                 connectVars, localVars, cmds, logged, sigCount, faults, path, args>>

\* the cleanup(1) of die
DieCleanup ==
  /\ pc = "reporting"
  /\ Head(pend).op = "cleanup"
  /\ Cleanup(1, Head(pend).arg)
  /\ pend' = <<>>
  /\ UNCHANGED <<device_info, envVars, exit_status, sessionVars, connectVars,
                 localVars, cmds, logged, sigCount, faults, path, args>>

\* sys.exit(1) in get_usb_device
SysExit ==
  /\ pc = "reporting"
  /\ Head(pend).op = "exit"
  /\ pc' = "exited"
  /\ exit_status' = 1
  /\ pend' = <<>>
  /\ UNCHANGED <<device_info, cleanupVars, envVars, sessionVars, connectVars,
                 localVars, cmds, logged, sigCount, faults, path, args>>

\* signal handler: lambda sig, frame: self.cleanup(); the statements that
\* were pending are never run when cleanup exits
Signal ==
  /\ Running
  /\ sigCount < MaxSignals
  /\ sigCount' = sigCount + 1
  /\ Cleanup(0, pc)
  /\ pend' = IF CleanupGuard(cleanup_done) THEN pend ELSE <<>>
  /\ UNCHANGED <<device_info, envVars, exit_status, sessionVars, connectVars,
                 localVars, cmds, logged, faults, path, args>>

\* sys.exit(exit_code) at the end of cleanup
CleanupExit ==
  /\ pc = "cleanup_exit"
  /\ pc' = "exited"
  /\ exit_status' = exit_code
  /\ UNCHANGED <<device_info, cleanupVars, envVars, sessionVars, connectVars,
                 localVars, cmds, logged, sigCount, faults, path, pend, args>>

\* main returns: the interpreter exits with status 0
MainReturn ==
  /\ pc = "main_return"
  /\ pc' = "exited"
  /\ exit_status' = 0
  /\ UNCHANGED <<device_info, cleanupVars, envVars, sessionVars, connectVars,
                 localVars, cmds, logged, sigCount, faults, path, pend, args>>

\* ---------------------------------------------------- main: first steps
\* args = parser.parse_args()
ParseArguments ==
  /\ pc = "parse_arguments"
  /\ \E ip \in ArgIps, port \in ArgPorts, rot \in ArgRotations, usb \in ArgUsb :
       args' = [ip |-> ip, port |-> port, rotation |-> rot, usb |-> usb]
  /\ pc' = "set_device_ip"
  /\ UNCHANGED <<device_info, cleanupVars, envVars, exit_status, sessionVars,
                 connectVars, localVars, cmds, logged, sigCount, faults, path, pend>>

\* self.device_info.device_ip = args.ip or ""
SetDeviceIp ==
  /\ pc = "set_device_ip"
  /\ device_info' = [device_info EXCEPT !.device_ip = args.ip]
  /\ pc' = "set_port"
  /\ UNCHANGED <<cleanupVars, envVars, exit_status, sessionVars, connectVars,
                 localVars, cmds, logged, sigCount, faults, path, pend, args>>

\* self.device_info.port = args.port
SetPort ==
  /\ pc = "set_port"
  /\ device_info' = [device_info EXCEPT !.port = args.port]
  /\ pc' = "set_rotation"
  /\ UNCHANGED <<cleanupVars, envVars, exit_status, sessionVars, connectVars,
                 localVars, cmds, logged, sigCount, faults, path, pend, args>>

\* self.device_info.rotation = args.rotation
SetRotation ==
  /\ pc = "set_rotation"
  /\ device_info' = [device_info EXCEPT !.rotation = args.rotation]
  /\ pc' = "set_mode"
  /\ UNCHANGED <<cleanupVars, envVars, exit_status, sessionVars, connectVars,
                 localVars, cmds, logged, sigCount, faults, path, pend, args>>

\* self.device_info.mode = "usb" if args.usb else "wireless"
SetMode ==
  /\ pc = "set_mode"
  /\ device_info' = [device_info EXCEPT !.mode = IF args.usb THEN "usb" ELSE "wireless"]
  /\ pc' = "check_environment"
  /\ UNCHANGED <<cleanupVars, envVars, exit_status, sessionVars, connectVars,
                 localVars, cmds, logged, sigCount, faults, path, pend, args>>

\* check_environment: os.chdir(self.script_dir)
Chdir ==
  /\ pc = "check_environment"
  /\ cwd' = "script_dir"
  /\ pc' = "check_files"
  /\ UNCHANGED <<device_info, cleanupVars, adb_file, adb_x, exit_status, sessionVars,
                 connectVars, localVars, cmds, logged, sigCount, faults, path, pend,
                 args>>

\* the test of Path(file).is_file() for scrcpy and adb, and die when one is
\* missing
CheckEnvironment ==
  /\ pc = "check_files"
  /\ IF adb_file # "ok"
     THEN Die("missing_files", "chmod")
     ELSE pc' = "chmod" /\ pend' = pend
  /\ UNCHANGED <<device_info, cleanupVars, envVars, exit_status, sessionVars,
                 connectVars, localVars, cmds, logged, sigCount, faults, path, args>>

\* the test of os.access(path, os.X_OK) and path.chmod(mode | 0o111) for
\* scrcpy and adb: both files have the execute permission afterwards
Chmod ==
  /\ pc = "chmod"
  /\ adb_x' = TRUE
  /\ pc' = "connect_to_device"
  /\ UNCHANGED <<device_info, cleanupVars, adb_file, cwd, exit_status, sessionVars,
                 connectVars, localVars, cmds, logged, sigCount, faults, path, pend,
                 args>>

\* ----------------------------------------------------- connect_to_device
ConnectToDevice ==
  /\ pc = "connect_to_device"
  /\ IF device_info.mode = "usb"
     THEN pc' = "usb_kill_server" /\ path' = "usb"
     ELSE pc' = "detect_wireless" /\ path' = path
  /\ UNCHANGED <<device_info, cleanupVars, envVars, exit_status, sessionVars,
                 connectVars, localVars, cmds, logged, sigCount, faults, pend, args>>

\* where connect_to_device goes when detect_wireless_device returns False:
\* connect_device when an address is configured, setup_usb_device otherwise
AfterDetect(di) == IF di.device_ip # "" THEN "connect_device" ELSE "usb_kill_server"
\* how the target is resolved then
PathAfterDetect(di) == IF di.device_ip # "" THEN "explicit" ELSE "fallback"

\* detect_wireless_device: result = self.run_adb(["devices"]); a failure is
\* reported by run_adb and passed over (except CalledProcessError: pass)
DetectWirelessDevice ==
  /\ pc = "detect_wireless"
  /\ Issue("devices")
  /\ \E ok \in BOOLEAN, lines \in DeviceLists :
       IF ok
       THEN /\ devices_out' = lines
            /\ path' = path
            /\ pc' = "scan_wireless" /\ pend' = pend
       ELSE /\ devices_out' = <<>>
            /\ path' = PathAfterDetect(device_info)
            /\ Then(<<AdbFailed, GotoOp(AfterDetect(device_info))>>)
  /\ UNCHANGED <<device_info, cleanupVars, envVars, exit_status, sessionVars,
                 connectVars, usb_id, wireless_id, tcpip_out, tcpip_rc, logged,
                 sigCount, faults, args>>

\* the scan of the lines up to wireless_id = line.split()[0]; when no line
\* qualifies, `return False` and the two tests that follow in
\* connect_to_device
ScanWireless ==
  /\ pc = "scan_wireless"
  /\ IF Truthy(FirstWirelessId(devices_out))
     THEN /\ wireless_id' = FirstWirelessId(devices_out)
          /\ path' = path
          /\ pc' = "detected_wireless"
     ELSE /\ wireless_id' = wireless_id
          /\ path' = PathAfterDetect(device_info)
          /\ pc' = AfterDetect(device_info)
  /\ UNCHANGED <<device_info, cleanupVars, envVars, exit_status, sessionVars,
                 connectVars, devices_out, usb_id, tcpip_out, tcpip_rc, cmds, logged,
                 sigCount, faults, pend, args>>

\* self.device_info.device_ip = wireless_id.split(":")[0]; return True, and
\* connect_to_device returns
DetectedWireless ==
  /\ pc = "detected_wireless"
  /\ device_info' = [device_info EXCEPT !.device_ip = wireless_id.name]
  /\ path' = "shortcut"
  /\ pc' = "start_scrcpy"
  /\ UNCHANGED <<cleanupVars, envVars, exit_status, sessionVars, connectVars,
                 localVars, cmds, logged, sigCount, faults, pend, args>>

\* -------------------------------------------------------- connect_device
\* while retries < MAX_RETRIES
WhileCond(r) == r < MAX_RETRIES
\* if retries < MAX_RETRIES: time.sleep(RETRY_DELAY)
SleepCond(r) == r < MAX_RETRIES

\* the test at the head of the loop with retries = r: another attempt, or
\* the diagnostic and `return False`, after which connect_to_device falls
\* back to setup_usb_device
LoopHead(r) ==
  IF WhileCond(r)
  THEN pc' = "cd_attempt" /\ pend' = pend
  ELSE Then(<<LogOp("connect_exhausted"), SetOp("return_false"),
              GotoOp("usb_kill_server")>>)

ConnectDevice ==
  /\ pc = "connect_device"
  /\ retries' = 0
  /\ \E n \in 0..MaxFailN : failN' = n
  /\ LoopHead(0)
  /\ devices_out' = <<>>
  /\ UNCHANGED <<device_info, cleanupVars, envVars, exit_status, sessionVars, usb_id,
                 wireless_id, tcpip_out, tcpip_rc, cmds, logged, sigCount, attempts,
                 delays, connectResult, faults, path, args>>

\* an attempt begins: adb connect ip:port (check=True).  An attempt that the
\* environment makes fail (the first failN ones) fails here or at the shell
\* check; an attempt that succeeds passes both.
CdConnect ==
  /\ pc = "cd_attempt"
  /\ attempts' = attempts + 1
  /\ Issue("connect")
  /\ \E ok \in BOOLEAN :
       /\ attempts + 1 > failN => ok
       /\ IF ok
          THEN pc' = "cd_shell_exit" /\ pend' = pend
          ELSE Then(<<AdbFailed, GotoOp("cd_devices")>>)
  /\ UNCHANGED <<device_info, cleanupVars, envVars, exit_status, sessionVars, retries,
                 failN, localVars, logged, sigCount, delays, connectResult, faults,
                 path, args>>

\* adb -s ip:port shell exit (check=True); on success `return True`
CdShellExit ==
  /\ pc = "cd_shell_exit"
  /\ Issue("cd_shell_exit")
  /\ IF attempts > failN
     THEN connectResult' = "true" /\ pc' = "start_scrcpy" /\ pend' = pend
     ELSE connectResult' = connectResult /\ Then(<<AdbFailed, GotoOp("cd_devices")>>)
  /\ UNCHANGED <<device_info, cleanupVars, envVars, exit_status, sessionVars, retries,
                 failN, localVars, logged, sigCount, attempts, delays, faults, path,
                 args>>

\* the except branch: adb devices (check=True, not guarded)
CdDevices ==
  /\ pc = "cd_devices"
  /\ Issue("devices")
  /\ \E ok \in BOOLEAN :
       IF ok
       THEN /\ pc' = "cd_retry" /\ pend' = pend
            /\ connectResult' = connectResult
       ELSE /\ connectResult' = "raised"
            /\ RaiseFailed
  /\ UNCHANGED <<device_info, cleanupVars, envVars, exit_status, sessionVars, retries,
                 failN, localVars, logged, sigCount, attempts, delays, faults, path,
                 args>>

\* retries += 1 and the test before the delay
CdRetry ==
  /\ pc = "cd_retry"
  /\ retries' = retries + 1
  /\ IF SleepCond(retries + 1)
     THEN pc' = "cd_sleep" /\ pend' = pend
     ELSE LoopHead(retries + 1)
  /\ UNCHANGED <<device_info, cleanupVars, envVars, exit_status, sessionVars, failN,
                 localVars, cmds, logged, sigCount, attempts, delays, connectResult,
                 faults, path, args>>

\* time.sleep(RETRY_DELAY) returns, then the loop test
CdSleep ==
  /\ pc = "cd_sleep"
  /\ delays' = delays + 1
  /\ LoopHead(retries)
  /\ UNCHANGED <<device_info, cleanupVars, envVars, exit_status, sessionVars, retries,
                 failN, localVars, cmds, logged, sigCount, attempts, connectResult,
                 faults, path, args>>

\* -------------------------------------------------------- get_usb_device
\* adb kill-server (check=False): the outcome is ignored
UsbKillServer ==
  /\ pc = "usb_kill_server"
  /\ Issue("kill-server")
  /\ pc' = "usb_start_server"
  /\ devices_out' = <<>>
  /\ UNCHANGED <<device_info, cleanupVars, envVars, exit_status, sessionVars,
                 connectVars, usb_id, wireless_id, tcpip_out, tcpip_rc, logged,
                 sigCount, faults, path, pend, args>>

\* adb start-server (check=False): the outcome is ignored
UsbStartServer ==
  /\ pc = "usb_start_server"
  /\ Issue("start-server")
  /\ pc' = "usb_devices"
  /\ UNCHANGED <<device_info, cleanupVars, envVars, exit_status, sessionVars,
                 connectVars, localVars, logged, sigCount, faults, path, pend, args>>

\* result = self.run_adb(["devices"], capture_output=True) (check=True, not
\* guarded)
UsbDevices ==
  /\ pc = "usb_devices"
  /\ Issue("devices")
  /\ \E ok \in BOOLEAN, lines \in DeviceLists :
       IF ~ok
       THEN /\ RaiseFailed
            /\ UNCHANGED devices_out
       ELSE /\ devices_out' = lines
            /\ pc' = "scan_usb" /\ pend' = pend
  /\ UNCHANGED <<device_info, cleanupVars, envVars, exit_status, sessionVars,
                 connectVars, usb_id, wireless_id, tcpip_out, tcpip_rc, logged,
                 sigCount, faults, path, args>>

\* the scan of the lines up to device_id = line.split()[0], and the reports
\* and sys.exit(1) when no line qualifies
ScanUsb ==
  /\ pc = "scan_usb"
  /\ usb_id' = FirstUsbId(devices_out)
  /\ IF Truthy(FirstUsbId(devices_out))
     THEN pc' = "usb_verify" /\ pend' = pend
     ELSE Then(<<LogOp("no_usb_device"), ExitOp>>)
  /\ UNCHANGED <<device_info, cleanupVars, envVars, exit_status, sessionVars,
                 connectVars, devices_out, wireless_id, tcpip_out, tcpip_rc, cmds,
                 logged, sigCount, faults, path, args>>

\* adb -s <id> shell echo ok; on success get_usb_device returns and
\* setup_usb_device stores the identifier and tests the mode
UsbVerify ==
  /\ pc = "usb_verify"
  /\ Issue("usb_echo_ok")
  /\ \E ok \in BOOLEAN :
       IF ok
       THEN /\ device_info' = [device_info EXCEPT !.device_id = usb_id]
            /\ pc' = IF device_info.mode = "wireless" THEN "wifi_on" ELSE "start_scrcpy"
            /\ pend' = pend
       ELSE /\ Then(<<AdbFailed, LogOp("usb_unhealthy"), ExitOp>>)
            /\ UNCHANGED device_info
  /\ UNCHANGED <<cleanupVars, envVars, exit_status, sessionVars, connectVars,
                 localVars, logged, sigCount, faults, path, args>>

\* ----------------------------------------------------- check_wifi_status
WifiOutputs == {"fail", "1", "0"}

\* settings get global wifi_on
WifiOn ==
  /\ pc = "wifi_on"
  /\ Issue("wifi_on")
  /\ \E out \in WifiOutputs :
       /\ faults' = IF out = "1" THEN faults ELSE faults \cup {<<"wifi_on", out>>}
       /\ CASE out = "fail" -> DieFailed("wifi_check_failed", "get_ip_addr")
            [] out = "1" -> pc' = "wifi_dumpsys" /\ pend' = pend
            [] OTHER -> Die("wifi_off", "wifi_dumpsys")
  /\ devices_out' = <<>>
  /\ UNCHANGED <<device_info, cleanupVars, envVars, exit_status, sessionVars,
                 connectVars, usb_id, wireless_id, tcpip_out, tcpip_rc, logged,
                 sigCount, path, args>>

DumpsysOutputs == {"fail", "Wi-Fi is enabled", "Wi-Fi is disabled"}

\* dumpsys wifi
WifiDumpsys ==
  /\ pc = "wifi_dumpsys"
  /\ Issue("dumpsys_wifi")
  /\ \E out \in DumpsysOutputs :
       /\ faults' = IF out = "Wi-Fi is enabled" THEN faults
                    ELSE faults \cup {<<"dumpsys_wifi", out>>}
       /\ CASE out = "fail" -> DieFailed("wifi_check_failed", "get_ip_addr")
            [] out = "Wi-Fi is enabled" -> pc' = "get_ip_addr" /\ pend' = pend
            [] OTHER -> Die("wifi_not_connected", "get_ip_addr")
  /\ UNCHANGED <<device_info, cleanupVars, envVars, exit_status, sessionVars,
                 connectVars, localVars, logged, sigCount, path, args>>

\* ---------------------------------------------------------- get_device_ip
\* what one of the two commands yields: a failure, an output without
\* "inet a.b.c.d", or an output with the address
IpOutputs == {"fail", "nomatch"} \cup DeviceIps

\* ip addr show wlan0
GetIpAddr ==
  /\ pc = "get_ip_addr"
  /\ Issue("ip_addr")
  /\ \E out \in IpOutputs :
       CASE out \in DeviceIps ->
              /\ device_info' = [device_info EXCEPT !.device_ip = out]
              /\ pc' = "enable_tcpip" /\ pend' = pend
         [] out = "fail" ->
              /\ device_info' = device_info
              /\ Then(<<AdbFailed, GotoOp("get_ifconfig")>>)
         [] OTHER ->
              /\ device_info' = device_info
              /\ pc' = "get_ifconfig" /\ pend' = pend
  /\ UNCHANGED <<cleanupVars, envVars, exit_status, sessionVars, connectVars,
                 localVars, logged, sigCount, faults, path, args>>

\* ifconfig wlan0; with no address get_device_ip returns None, device_ip
\* becomes None and setup_usb_device dies
GetIfconfig ==
  /\ pc = "get_ifconfig"
  /\ Issue("ifconfig")
  /\ \E out \in IpOutputs :
       CASE out \in DeviceIps ->
              /\ device_info' = [device_info EXCEPT !.device_ip = out]
              /\ pc' = "enable_tcpip" /\ pend' = pend
         [] out = "fail" ->
              /\ device_info' = device_info
              /\ Then(<<AdbFailed, SetOp("ip_none"), LogOp("no_ip"),
                        CleanupOp("enable_tcpip")>>)
         [] OTHER ->
              /\ device_info' = [device_info EXCEPT !.device_ip = ""]
              /\ Die("no_ip", "enable_tcpip")
  /\ UNCHANGED <<cleanupVars, envVars, exit_status, sessionVars, connectVars,
                 localVars, logged, sigCount, faults, path, args>>

\* ------------------------------------------------------ enable_tcpip_mode
\* adb -s <id> tcpip <port> (check=True) and the test of its output
EnableTcpipMode ==
  /\ pc = "enable_tcpip"
  /\ Issue("tcpip")
  /\ \E rc \in TcpipCodes, out \in Responses :
       /\ tcpip_rc' = rc
       /\ tcpip_out' = out
       /\ IF rc # 0
          THEN DieFailed("tcpip_failed", "start_scrcpy")
          ELSE IF ~TcpipPatternMatches(out)
          THEN Die("tcpip_not_started", "start_scrcpy")
          ELSE pc' = "start_scrcpy" /\ pend' = pend
  /\ UNCHANGED <<device_info, cleanupVars, envVars, exit_status, sessionVars,
                 connectVars, devices_out, usb_id, wireless_id, logged, sigCount,
                 faults, path, args>>

\* ----------------------------------------------------------- start_scrcpy
\* get_target_device
GetTargetDevice(di) ==
  IF di.mode = "usb" THEN di.device_id ELSE AddrPort(di.device_ip, di.port)

SettingOutputs == {"fail"} \cup SettingValues

\* target_device = self.get_target_device()
StartScrcpy ==
  /\ pc = "start_scrcpy"
  /\ target_device' = GetTargetDevice(device_info)
  /\ tcpip_out' = NoResponse
  /\ tcpip_rc' = NoCode
  /\ devices_out' = <<>>
  /\ pc' = "echo_ok"
  /\ UNCHANGED <<device_info, cleanupVars, envVars, exit_status, connectVars, usb_id,
                 wireless_id, scrcpy_rc, cmds, logged, sigCount, readOk, faults, path,
                 pend, args>>

\* adb -s <target_device> shell echo ok
EchoOk ==
  /\ pc = "echo_ok"
  /\ Issue("echo_ok")
  /\ \E ok \in BOOLEAN :
       IF ok
       THEN pc' = "get_stay_awake" /\ pend' = pend
       ELSE DieFailed("device_not_connected", "get_stay_awake")
  /\ UNCHANGED <<device_info, cleanupVars, envVars, exit_status, sessionVars,
                 connectVars, localVars, logged, sigCount, faults, path, args>>

\* settings get global stay_awake; when the read fails, "0" after run_adb's report
GetStayAwake ==
  /\ pc = "get_stay_awake"
  /\ Issue("get_stay_awake")
  /\ \E out \in SettingOutputs :
       IF out = "fail"
       THEN /\ Then(<<AdbFailed, SetOp("stay_awake"), GotoOp("get_lockscreen")>>)
            /\ Fault("get_stay_awake", "fail")
            /\ UNCHANGED <<device_info, readOk>>
       ELSE /\ device_info' = [device_info EXCEPT !.original_stay_awake = SnapshotOf(out)]
            /\ readOk' = readOk \cup {"stay_awake"}
            /\ pc' = "get_lockscreen" /\ pend' = pend
            /\ faults' = faults
  /\ UNCHANGED <<cleanupVars, envVars, exit_status, target_device, connectVars,
                 localVars, scrcpy_rc, logged, sigCount, path, args>>

\* settings get secure lockscreen.disabled; when the read fails, "0" after run_adb's report
GetLockscreen ==
  /\ pc = "get_lockscreen"
  /\ Issue("get_lockscreen")
  /\ \E out \in SettingOutputs :
       IF out = "fail"
       THEN /\ Then(<<AdbFailed, SetOp("lockscreen"), GotoOp("put_lockscreen")>>)
            /\ Fault("get_lockscreen", "fail")
            /\ UNCHANGED <<device_info, readOk>>
       ELSE /\ device_info' = [device_info EXCEPT !.original_lockscreen = SnapshotOf(out)]
            /\ readOk' = readOk \cup {"lockscreen"}
            /\ pc' = "put_lockscreen" /\ pend' = pend
            /\ faults' = faults
  /\ UNCHANGED <<cleanupVars, envVars, exit_status, target_device, connectVars,
                 localVars, scrcpy_rc, logged, sigCount, path, args>>

\* settings put secure lockscreen.disabled 1 (check=True, not caught)
PutLockscreen ==
  /\ pc = "put_lockscreen"
  /\ Issue("put_lockscreen_1")
  /\ \E ok \in BOOLEAN :
       IF ok
       THEN pc' = "put_stay_awake" /\ pend' = pend
       ELSE RaiseFailed
  /\ UNCHANGED <<device_info, cleanupVars, envVars, exit_status, sessionVars,
                 connectVars, localVars, logged, sigCount, faults, path, args>>

\* settings put global stay_awake 1 (check=True, not caught), then the test
\* of rotation
PutStayAwake ==
  /\ pc = "put_stay_awake"
  /\ Issue("put_stay_awake_1")
  /\ \E ok \in BOOLEAN :
       IF ok
       THEN /\ pc' = IF device_info.rotation # NoRotation
                     THEN "rotation_accelerometer" ELSE "launch_scrcpy"
            /\ pend' = pend
       ELSE RaiseFailed
  /\ UNCHANGED <<device_info, cleanupVars, envVars, exit_status, sessionVars,
                 connectVars, localVars, logged, sigCount, faults, path, args>>

\* ----------------------------------------------------------- set_rotation
\* the reports of a failed rotation command: run_adb's, set_rotation's and
\* start_scrcpy's warning; then the launch
RotationFailed ==
  Then(<<AdbFailed, LogOp("rotation_failed"), LogOp("rotation_default"),
         GotoOp("launch_scrcpy")>>)

\* a set_rotation whose first command is not guarded: its failure reaches
\* main's handler
RotationAccelerometerFatal ==
  /\ pc = "rotation_accelerometer"
  /\ Issue("put_accelerometer_rotation_0")
  /\ \E ok \in BOOLEAN :
       IF ok
       THEN pc' = "rotation_user" /\ pend' = pend /\ faults' = faults
       ELSE RaiseFailed /\ Fault("put_accelerometer_rotation_0", "fail")
  /\ UNCHANGED <<device_info, cleanupVars, envVars, exit_status, sessionVars,
                 connectVars, localVars, logged, sigCount, path, args>>

\* settings put system accelerometer_rotation 0
RotationAccelerometer ==
  /\ pc = "rotation_accelerometer"
  /\ Issue("put_accelerometer_rotation_0")
  /\ \E ok \in BOOLEAN :
       IF ok
       THEN pc' = "rotation_user" /\ pend' = pend /\ faults' = faults
       ELSE RotationFailed /\ Fault("put_accelerometer_rotation_0", "fail")
  /\ UNCHANGED <<device_info, cleanupVars, envVars, exit_status, sessionVars,
                 connectVars, localVars, logged, sigCount, path, args>>

\* settings put system user_rotation <rotation>
RotationUser ==
  /\ pc = "rotation_user"
  /\ Issue("put_user_rotation")
  /\ \E ok \in BOOLEAN :
       IF ok
       THEN pc' = "launch_scrcpy" /\ pend' = pend /\ faults' = faults
       ELSE RotationFailed /\ Fault("put_user_rotation", "fail")
  /\ UNCHANGED <<device_info, cleanupVars, envVars, exit_status, sessionVars,
                 connectVars, localVars, logged, sigCount, path, args>>

\* --------------------------------------------------------- session runner
\* subprocess.run(["./scrcpy", "-s", target_device, ...], check=True) starts
LaunchScrcpy ==
  /\ pc = "launch_scrcpy"
  /\ Issue("scrcpy")
  /\ pc' = "scrcpy_running"
  /\ UNCHANGED <<device_info, cleanupVars, envVars, exit_status, sessionVars,
                 connectVars, localVars, logged, sigCount, faults, path, pend, args>>

\* a session runner that does not know exit code 130
IsAbnormalExitNo130(rc) == rc \notin {0, 2}

\* e.returncode not in [0, 130, 2]
IsAbnormalExit(rc) == rc \notin OkCodes

\* the mirroring tool exits with rc; start_scrcpy reports and returns to main
ScrcpyExits ==
  /\ pc = "scrcpy_running"
  /\ \E rc \in ExitCodes :
       /\ scrcpy_rc' = rc
       /\ IF rc # 0 /\ IsAbnormalExit(rc)
          THEN Then(<<LogOp("scrcpy_abnormal"), GotoOp("main_return")>>)
          ELSE pc' = "main_return" /\ pend' = pend
  /\ UNCHANGED <<device_info, cleanupVars, envVars, exit_status, target_device,
                 connectVars, localVars, cmds, logged, sigCount, readOk, faults, path,
                 args>>

\* ------------------------------------------------ restore_device_settings
\* restoration that writes stay_awake without testing the snapshot
AfterCheckAlways(di) == "restore_stay_awake"

AfterCheck(di) == IF di.original_stay_awake # None THEN "restore_stay_awake" ELSE "restore_sleep"
AfterSleep(di) == IF di.original_lockscreen # None THEN "restore_lockscreen" ELSE "cleanup_exit"

\* adb -s <target> shell exit; when ./adb cannot be run the call raises an
\* OSError, which no handler of restore_device_settings or cleanup catches
RestoreCheck ==
  /\ pc = "restore_check"
  /\ Issue("restore_shell_exit")
  /\ IF ~AdbRuns
     THEN Raise
     ELSE /\ \E ok \in BOOLEAN :
               IF ok
               THEN pc' = AfterCheck(device_info) /\ logged' = logged
               ELSE pc' = "cleanup_exit" /\ logged' = logged \cup {"adb_failed", "disconnected"}
          /\ UNCHANGED cleanupVars
  /\ UNCHANGED <<device_info, envVars, faults, exit_status, connectVars, localVars,
                 sessionVars, sigCount, path, pend, args>>

\* a restoration whose stay_awake write is not guarded: its failure leaves
\* restore_device_settings and cleanup
RestoreStayAwakeEscalates ==
  /\ pc = "restore_stay_awake"
  /\ Issue("restore_stay_awake")
  /\ \E ok \in BOOLEAN :
       IF ok
       THEN pc' = "restore_sleep" /\ UNCHANGED <<logged, faults, pend>>
       ELSE /\ logged' = logged \cup {"adb_failed"}
            /\ Fault("restore_stay_awake", "fail")
            /\ Then(<<LogOp("exception"), CleanupOp("main_return")>>)
  /\ UNCHANGED <<device_info, envVars, exit_status, cleanupVars, connectVars,
                 localVars, sessionVars, sigCount, path, args>>

\* settings put global stay_awake <original_stay_awake>
RestoreStayAwake ==
  /\ pc = "restore_stay_awake"
  /\ Issue("restore_stay_awake")
  /\ \E ok \in BOOLEAN :
       IF ok
       THEN logged' = logged /\ faults' = faults
       ELSE /\ logged' = logged \cup {"adb_failed", "restore_stay_awake_failed"}
            /\ Fault("restore_stay_awake", "fail")
  /\ pc' = "restore_sleep"
  /\ UNCHANGED <<device_info, envVars, exit_status, cleanupVars, connectVars,
                 localVars, sessionVars, sigCount, path, pend, args>>

\* a restoration that sends KEYCODE_POWER whatever KEYCODE_SLEEP did
AfterKeycodeSleepBoth(ok, di) == "restore_power"

\* where restoration goes after KEYCODE_SLEEP: on to the lockscreen restore when
\* it succeeded, to KEYCODE_POWER when it raised CalledProcessError
AfterKeycodeSleep(ok, di) == IF ok THEN AfterSleep(di) ELSE "restore_power"

\* input keyevent KEYCODE_SLEEP
RestoreSleep ==
  /\ pc = "restore_sleep"
  /\ Issue("keyevent_sleep")
  /\ \E ok \in BOOLEAN :
       /\ pc' = AfterKeycodeSleep(ok, device_info)
       /\ faults' = IF ok THEN faults ELSE faults \cup {<<"keyevent_sleep", "fail">>}
       /\ logged' = IF ok THEN logged ELSE logged \cup {"adb_failed"}
  /\ UNCHANGED <<device_info, envVars, exit_status, cleanupVars, connectVars,
                 localVars, sessionVars, sigCount, path, pend, args>>

\* input keyevent KEYCODE_POWER
RestorePower ==
  /\ pc = "restore_power"
  /\ Issue("keyevent_power")
  /\ \E ok \in BOOLEAN :
       IF ok
       THEN logged' = logged /\ faults' = faults
       ELSE /\ logged' = logged \cup {"adb_failed", "sleep_failed"}
            /\ Fault("keyevent_power", "fail")
  /\ pc' = AfterSleep(device_info)
  /\ UNCHANGED <<device_info, envVars, exit_status, cleanupVars, connectVars,
                 localVars, sessionVars, sigCount, path, pend, args>>

\* settings put secure lockscreen.disabled <original_lockscreen>
RestoreLockscreen ==
  /\ pc = "restore_lockscreen"
  /\ Issue("restore_lockscreen")
  /\ \E ok \in BOOLEAN :
       IF ok
       THEN logged' = logged /\ faults' = faults
       ELSE /\ logged' = logged \cup {"adb_failed", "restore_lockscreen_failed"}
            /\ Fault("restore_lockscreen", "fail")
  /\ pc' = "cleanup_exit"
  /\ UNCHANGED <<device_info, envVars, exit_status, cleanupVars, connectVars,
                 localVars, sessionVars, sigCount, path, pend, args>>

\* ------------------------------------------------- signal during a command
\* the run_adb command that the interpreter starts at each position outside
\* cleanup
CommandAt ==
  [p \in {"detect_wireless", "cd_attempt", "cd_shell_exit", "cd_devices",
          "usb_kill_server", "usb_start_server", "usb_devices", "usb_verify",
          "wifi_on", "wifi_dumpsys", "get_ip_addr", "get_ifconfig", "enable_tcpip",
          "echo_ok", "get_stay_awake", "get_lockscreen", "put_lockscreen",
          "put_stay_awake", "rotation_accelerometer", "rotation_user"} |->
     CASE p = "detect_wireless" -> "devices"
       [] p = "cd_attempt" -> "connect"
       [] p = "cd_shell_exit" -> "cd_shell_exit"
       [] p = "cd_devices" -> "devices"
       [] p = "usb_kill_server" -> "kill-server"
       [] p = "usb_start_server" -> "start-server"
       [] p = "usb_devices" -> "devices"
       [] p = "usb_verify" -> "usb_echo_ok"
       [] p = "wifi_on" -> "wifi_on"
       [] p = "wifi_dumpsys" -> "dumpsys_wifi"
       [] p = "get_ip_addr" -> "ip_addr"
       [] p = "get_ifconfig" -> "ifconfig"
       [] p = "enable_tcpip" -> "tcpip"
       [] p = "echo_ok" -> "echo_ok"
       [] p = "get_stay_awake" -> "get_stay_awake"
       [] p = "get_lockscreen" -> "get_lockscreen"
       [] p = "put_lockscreen" -> "put_lockscreen_1"
       [] p = "put_stay_awake" -> "put_stay_awake_1"
       [] p = "rotation_accelerometer" -> "put_accelerometer_rotation_0"
       [] OTHER -> "put_user_rotation"]

\* a signal delivered while a run_adb command is running: the command has
\* been started, the handler's cleanup() ends in sys.exit and the command's
\* outcome is never seen.  (While cleanup runs the handler returns at once
\* and the command goes on: Signal.)
Interrupt ==
  /\ Running
  /\ pc \in DOMAIN CommandAt
  /\ ~CleanupGuard(cleanup_done)
  /\ sigCount < MaxSignals
  /\ sigCount' = sigCount + 1
  /\ Issue(CommandAt[pc])
  /\ attempts' = IF pc = "cd_attempt" THEN attempts + 1 ELSE attempts
  /\ Cleanup(0, pc)
  /\ UNCHANGED <<device_info, envVars, faults, exit_status, retries, failN, delays,
                 connectResult, localVars, sessionVars, logged, path, pend, args>>

\* ---------------------------------------------------------- specification
Next ==
  \/ ParseArguments
  \/ SetDeviceIp
  \/ SetPort
  \/ SetRotation
  \/ SetMode
  \/ Chdir
  \/ CheckEnvironment
  \/ Chmod
  \/ ConnectToDevice
  \/ DetectWirelessDevice
  \/ ScanWireless
  \/ DetectedWireless
  \/ ConnectDevice
  \/ CdConnect
  \/ CdShellExit
  \/ CdDevices
  \/ CdRetry
  \/ CdSleep
  \/ UsbKillServer
  \/ UsbStartServer
  \/ UsbDevices
  \/ ScanUsb
  \/ UsbVerify
  \/ WifiOn
  \/ WifiDumpsys
  \/ GetIpAddr
  \/ GetIfconfig
  \/ EnableTcpipMode
  \/ StartScrcpy
  \/ EchoOk
  \/ GetStayAwake
  \/ GetLockscreen
  \/ PutLockscreen
  \/ PutStayAwake
  \/ RotationAccelerometer
  \/ RotationUser
  \/ LaunchScrcpy
  \/ ScrcpyExits
  \/ RestoreCheck
  \/ RestoreStayAwake
  \/ RestoreSleep
  \/ RestorePower
  \/ RestoreLockscreen
  \/ CleanupExit
  \/ MainReturn
  \/ LogError
  \/ Assign
  \/ Resume
  \/ DieCleanup
  \/ SysExit
  \/ Signal
  \/ Interrupt

Spec == Init /\ [][Next]_vars

\* ============================================================ send_text.py
\* The Text Sender (class AdbTextSender) is a separate program.  It is
\* specified over the same variables; it uses pc, adb_file, devices_out,
\* cmds, logged, faults and exit_status and leaves the others at their
\* initial values.  Its constructor has changed to the script's directory
\* (os.chdir in __init__).
textIdle == <<device_info, cleanup_done, exit_code, cleanup_target, target_device,
              retries, failN, usb_id, wireless_id, tcpip_out, tcpip_rc, scrcpy_rc,
              restoreCount, sigCount, attempts, delays, connectResult, readOk, path,
              pend, args>>

InitText ==
  /\ device_info = DeviceInfo
  /\ cleanup_done = FALSE
  /\ adb_file \in FileStates
  /\ cwd = "script_dir"
  /\ adb_x = TRUE
  /\ pc = "text_main"
  /\ exit_code = 0
  /\ exit_status = NoCode
  /\ cleanup_target = Empty
  /\ target_device = Empty
  /\ retries = 0
  /\ failN = 0
  /\ devices_out = <<>>
  /\ usb_id = Empty
  /\ wireless_id = Empty
  /\ tcpip_out = NoResponse
  /\ tcpip_rc = NoCode
  /\ scrcpy_rc = NoCode
  /\ cmds = <<>>
  /\ logged = {}
  /\ restoreCount = 0
  /\ sigCount = 0
  /\ attempts = 0
  /\ delays = 0
  /\ connectResult = "none"
  /\ readOk = {}
  /\ faults = {}
  /\ path = "none"
  /\ pend = <<>>
  /\ args = NoArgs

\* AdbTextSender.run_adb: how one subprocess.run ends: exit code 0 with
\* decodable output, a non-zero exit code (CalledProcessError), or output
\* that the codec cannot decode (UnicodeDecodeError, raised after the
\* command has run)
RunOutcomes == {"ok", "fail", "undecodable"}

\* devices = [line.split()[0] for line in lines[1:] if line.strip()]
RECURSIVE AttachedFrom(_, _)
AttachedFrom(lines, i) ==
  IF i > Len(lines) THEN <<>>
  ELSE IF NonEmptyLine(lines[i])
       THEN <<lines[i].id>> \o AttachedFrom(lines, i + 1)
       ELSE AttachedFrom(lines, i + 1)
Attached(lines) == AttachedFrom(lines, 1)

\* main: parse_args and the test of ./adb
TextMain ==
  /\ pc = "text_main"
  /\ IF adb_file = "adb_missing"
     THEN Log("adb_missing") /\ pc' = "exited" /\ exit_status' = 1
     ELSE pc' = "text_devices" /\ UNCHANGED <<logged, exit_status>>
  /\ UNCHANGED <<envVars, devices_out, cmds, faults, textIdle>>

\* the two tests of `devices` in main
TextCheckDevices(lines) ==
  /\ devices_out' = lines
  /\ IF Len(Attached(lines)) = 0
     THEN Log("no_device") /\ pc' = "exited" /\ exit_status' = 1
     ELSE IF Len(Attached(lines)) > 1
     THEN Log("multiple_devices") /\ pc' = "exited" /\ exit_status' = 1
     ELSE pc' = "text_send" /\ UNCHANGED <<logged, exit_status>>

\* an exception that nothing catches: the interpreter prints the traceback
\* (no log_error) and exits with status 1
TextUncaught == pc' = "exited" /\ exit_status' = 1

\* run_adb(["devices"]) with encoding utf-8
TextDevices ==
  /\ pc = "text_devices"
  /\ Issue("devices")
  /\ \E o \in RunOutcomes, lines \in DeviceLists :
       CASE o = "ok" -> TextCheckDevices(lines) /\ faults' = faults
         [] o = "fail" -> /\ Log("adb_failed")
                          /\ TextUncaught
                          /\ Fault("devices", "fail")
                          /\ UNCHANGED devices_out
         [] OTHER -> /\ pc' = "text_devices_gbk"
                     /\ Fault("devices", "undecodable")
                     /\ UNCHANGED <<devices_out, logged, exit_status>>
  /\ UNCHANGED <<envVars, textIdle>>

\* except UnicodeDecodeError: the same command again with encoding gbk; its
\* failure is raised inside the handler, where nothing logs or catches it
TextDevicesGbk ==
  /\ pc = "text_devices_gbk"
  /\ Issue("devices")
  /\ \E o \in RunOutcomes, lines \in DeviceLists :
       IF o = "ok"
       THEN TextCheckDevices(lines) /\ faults' = faults
       ELSE /\ TextUncaught
            /\ Fault("devices_gbk", o)
            /\ UNCHANGED <<devices_out, logged>>
  /\ UNCHANGED <<envVars, textIdle>>

\* send_text: am broadcast -a ADB_INPUT_TEXT --es msg <text>, inside main's
\* try; any exception ends in sys.exit(1)
TextSend ==
  /\ pc = "text_send"
  /\ Issue("broadcast")
  /\ \E o \in RunOutcomes :
       CASE o = "ok" -> /\ pc' = "exited" /\ exit_status' = 0
                        /\ UNCHANGED <<logged, faults>>
         [] o = "fail" -> /\ logged' = logged \cup {"adb_failed", "send_error"}
                          /\ pc' = "exited" /\ exit_status' = 1
                          /\ Fault("broadcast", "fail")
         [] OTHER -> /\ pc' = "text_send_gbk"
                     /\ Fault("broadcast", "undecodable")
                     /\ UNCHANGED <<logged, exit_status>>
  /\ UNCHANGED <<envVars, devices_out, textIdle>>

\* except UnicodeDecodeError: the broadcast again with encoding gbk
TextSendGbk ==
  /\ pc = "text_send_gbk"
  /\ Issue("broadcast")
  /\ \E o \in RunOutcomes :
       IF o = "ok"
       THEN pc' = "exited" /\ exit_status' = 0 /\ UNCHANGED <<logged, faults>>
       ELSE /\ Log("send_error")
            /\ pc' = "exited" /\ exit_status' = 1
            /\ Fault("broadcast_gbk", o)
  /\ UNCHANGED <<envVars, devices_out, textIdle>>

NextText ==
  \/ TextMain
  \/ TextDevices
  \/ TextDevicesGbk
  \/ TextSend
  \/ TextSendGbk

SpecText == InitText /\ [][NextText]_vars

\* ================================================================ claims
Issued(c) == \E i \in DOMAIN cmds : cmds[i] = c
\* c was issued, and d was issued after it
IssuedBefore(c, d) ==
  \E j \in DOMAIN cmds : cmds[j] = d /\ \E i \in 1..(j - 1) : cmds[i] = c
Launched == Issued("scrcpy")
Exited == pc = "exited"
DieMessages == {"missing_files", "wifi_check_failed", "wifi_off", "wifi_not_connected",
                "no_ip", "tcpip_failed", "tcpip_not_started", "device_not_connected",
                "exception"}
CleanupPcs == {"restore_check", "restore_stay_awake", "restore_sleep", "restore_power",
               "restore_lockscreen", "cleanup_exit"}
\* the statements that follow a command's answer are still to run
Reporting == pc = "reporting"
\* no signal has been delivered to the process
Uninterrupted == sigCount = 0

\* C1: once the mirroring tool has been launched, restore_device_settings is
\* run before the process terminates, however the session ends (exit code
\* 0, a non-zero exit code, or a signal).
C1_RestoreBeforeTermination == (Exited /\ Launched) => restoreCount >= 1

\* C2: restore_device_settings is executed at most once in any run, for
\* every number and interleaving of signals, die() calls and normal
\* completion.
C2_RestoreAtMostOnce == restoreCount <= 1

\* C2 witness: two signals were delivered, the second while the cleanup
\* started by the first was restoring, and the run ended with one restore.
C2_Witness == Exited /\ sigCount >= 2 /\ restoreCount = 1 /\ Issued("keyevent_sleep")

\* C3: a run in which the mirroring session completed normally and a signal
\* was delivered has invoked the restoration exactly once when it ends.
C3_RestoreExactlyOnce ==
  (Exited /\ scrcpy_rc # NoCode /\ sigCount >= 1) => restoreCount = 1

\* C3 witness: the mirroring tool exited, start_scrcpy returned, a signal
\* arrived before the interpreter exited, and one restore was done.
C3_Witness ==
  /\ Exited /\ scrcpy_rc = 0 /\ sigCount >= 1 /\ restoreCount = 1
  /\ device_info.mode = "usb"

\* what restoration wrote
RestoreWroteStayAwake == Issued("restore_stay_awake")
RestoreWroteLockscreen == Issued("restore_lockscreen")
\* restoration went past the place of the write
PastStayAwake == Issued("keyevent_sleep")
PastLockscreen == pc \in {"cleanup_exit", "exited"} /\ Issued("keyevent_sleep")

\* C4 (as claimed): restoration writes stay_awake (lockscreen.disabled) only
\* if the snapshot was successfully read from the device.
C4_WriteOnlyIfReadFromDevice ==
  /\ RestoreWroteStayAwake => "stay_awake" \in readOk
  /\ RestoreWroteLockscreen => "lockscreen" \in readOk

\* C4 (amended): restoration writes stay_awake (lockscreen.disabled) only if
\* the snapshot field has been populated, by a successful read or by the
\* default "0" of a failed read; while the field is unset the setting is
\* not written by restoration.
C4_WriteOnlyIfPopulated ==
  /\ RestoreWroteStayAwake => device_info.original_stay_awake # None
  /\ RestoreWroteLockscreen => device_info.original_lockscreen # None
  /\ (PastStayAwake /\ device_info.original_stay_awake = None) => ~RestoreWroteStayAwake
  /\ (PastLockscreen /\ device_info.original_lockscreen = None) => ~RestoreWroteLockscreen

\* C4 witness: a signal arrived between the two snapshot reads; restoration
\* wrote stay_awake and left lockscreen.disabled alone.
C4_Witness ==
  /\ Exited /\ RestoreWroteStayAwake /\ ~RestoreWroteLockscreen
  /\ device_info.original_stay_awake # None
  /\ device_info.original_lockscreen = None

ConnectEnded == connectResult # "none"
ConnectReturned == connectResult \in {"true", "false"}

\* C5: for every N <= 3, with the first N attempts failing and the next
\* succeeding, connect_device ends by returning success after exactly N+1
\* attempts.
C5_SuccessAfterNPlus1UpTo3 ==
  (ConnectEnded /\ failN <= 3) => (connectResult = "true" /\ attempts = failN + 1)

\* C6: when 3 or more consecutive connection attempts fail, connect_device
\* returns failure after exactly 3 attempts, having reported the
\* diagnostic, with 2 delays.
C6_FailureAfterMaxRetries ==
  (ConnectEnded /\ failN >= MAX_RETRIES /\ attempts >= MAX_RETRIES) =>
     /\ connectResult = "false"
     /\ attempts = MAX_RETRIES
     /\ delays = MAX_RETRIES - 1
     /\ "connect_exhausted" \in logged

\* C7: on the USB fallback path the connector performs USB discovery, WiFi
\* check, IP discovery, mode switch and connect-with-retry in that order,
\* and the mirroring tool is launched only after that connect.
C7_FallbackConnectsBeforeMirroring ==
  (path = "fallback" /\ Launched) =>
     /\ IssuedBefore("usb_echo_ok", "wifi_on")
     /\ IssuedBefore("dumpsys_wifi", "ip_addr")
     /\ IssuedBefore("ip_addr", "tcpip")
     /\ IssuedBefore("tcpip", "connect")
     /\ IssuedBefore("connect", "scrcpy")

\* the outputs that spell 'restarting in tcpip/TCP mode' or 'already running
\* as tcpip/TCP', in whatever case
C8_Accepted ==
  {r \in Responses :
     \/ r.verb = "restarting in" /\ r.word \in {"tcpip", "TCP"} /\ r.mode
     \/ r.verb = "ALREADY RUNNING AS" /\ r.word \in {"tcpip", "TCP"}}
TcpipAnswered == tcpip_rc # NoCode

\* C8: whenever the output of the tcpip command does not match the pattern,
\* with a zero or a non-zero exit code, the run goes on to nothing but the
\* report, cleanup and the exit: no connect and no mirroring session follows;
\* unless a signal ends the run first, the switch is reported as failed
\* and the process ends with status 1.
C8_NonMatchingResponseFails ==
  (TcpipAnswered /\ tcpip_out \notin C8_Accepted) =>
     /\ pc \in {"reporting"} \cup CleanupPcs \cup {"exited"}
     /\ ~IssuedBefore("tcpip", "connect")
     /\ ~IssuedBefore("tcpip", "echo_ok")
     /\ ~Launched
     /\ (Uninterrupted /\ ~Reporting) =>
          logged \cap {"tcpip_not_started", "tcpip_failed"} # {}
     /\ (Uninterrupted /\ Exited) => exit_status = 1

\* C8 witness: exit code 0 with an output that lacks " mode"; the run ended.
C8_Witness ==
  /\ Exited /\ tcpip_rc = 0 /\ exit_status = 1 /\ "tcpip_not_started" \in logged
  /\ tcpip_out = [verb |-> "restarting in", word |-> "tcpip", mode |-> FALSE]

\* the entries of a listing without ':' whose line holds the word "device"
C9_NonNetwork(lines) == {i \in DOMAIN lines : lines[i] # BlankLine /\ lines[i].id.port = NoPort}
C9_Selectable(lines) ==
  {i \in C9_NonNetwork(lines) :
     lines[i].state = "device" \/ lines[i].id.name \in NamesContainingDevice}
\* get_usb_device has read the listing and has not been left behind
UsbListed ==
  \/ pc \in {"usb_verify", "wifi_on"}
  \/ pc = "start_scrcpy" /\ device_info.mode = "usb"
  \/ Exited /\ logged \cap {"no_usb_device", "usb_unhealthy"} # {}
UsbReturned == pc = "wifi_on" \/ (pc = "start_scrcpy" /\ device_info.mode = "usb")

\* C9 (as claimed): with exactly one non-network entry in the listing,
\* discovery returns its identifier; with none it reports an error and the
\* process exits with code 1 (when no signal ends the run first).
C9_OneNonNetworkEntryReturned ==
  (UsbListed /\ Uninterrupted) =>
     /\ Cardinality(C9_NonNetwork(devices_out)) = 1 =>
          /\ ~Exited
          /\ \A i \in C9_NonNetwork(devices_out) : usb_id = devices_out[i].id
     /\ Cardinality(C9_NonNetwork(devices_out)) = 0 =>
          (Exited /\ exit_status = 1 /\ "no_usb_device" \in logged)

\* C9 (amended): with exactly one non-network entry whose line holds the
\* word "device", discovery selects it, returns its identifier when the
\* health check succeeds and exits with code 1 when it fails; with no such
\* entry it reports an error and the process exits with code 1.  (A signal
\* handled while the error is reported ends the process with code 0.)
C9_OneSelectableEntryReturned ==
  UsbListed =>
     /\ Cardinality(C9_Selectable(devices_out)) = 1 =>
          /\ \A i \in C9_Selectable(devices_out) :
               /\ usb_id = devices_out[i].id
               /\ UsbReturned => device_info.device_id = devices_out[i].id
          /\ Exited => "usb_unhealthy" \in logged
          /\ (Exited /\ Uninterrupted) => exit_status = 1
     /\ Cardinality(C9_Selectable(devices_out)) = 0 =>
          /\ Exited /\ "no_usb_device" \in logged
          /\ Uninterrupted => exit_status = 1

\* C9 witness: a network entry listed before the one USB entry; discovery
\* returned the USB entry.
C9_Witness ==
  /\ UsbReturned
  /\ Len(devices_out) = 2
  /\ devices_out[1].id.port # NoPort /\ devices_out[1].state = "device"
  /\ device_info.device_id = [name |-> "usbA", port |-> NoPort]

\* C10: the session runner reports an abnormal termination only when the
\* exit code of the mirroring tool is outside {0, 2, 130}, and then it does
\* so before start_scrcpy returns to main (and in every run that no signal
\* ends first); the exit code never leads to die: the process ends with
\* status 0.
C10_AbnormalExitReported ==
  scrcpy_rc # NoCode =>
     /\ "scrcpy_abnormal" \in logged => scrcpy_rc \notin {0, 2, 130}
     /\ (scrcpy_rc \notin {0, 2, 130} /\ (pc = "main_return" \/ (Exited /\ Uninterrupted)))
          => "scrcpy_abnormal" \in logged
     /\ logged \cap DieMessages = {}
     /\ exit_code = 0
     /\ Exited => exit_status = 0

\* C10 witness: exit code 130, no message, the process ended with status 0.
C10_Witness ==
  /\ Exited /\ scrcpy_rc = 130 /\ "scrcpy_abnormal" \notin logged /\ exit_status = 0

\* number of times c was issued
TimesIssued(c) == Cardinality({i \in DOMAIN cmds : cmds[i] = c})

\* the identifiers in a listing, network-addressed or not, offline or not
C11_Entries(lines) == {i \in DOMAIN lines : lines[i] # BlankLine}

\* C11: the Text Sender issues the broadcast only with exactly one attached
\* device; with zero or several it exits with code 1 without a broadcast;
\* with one it issues the broadcast exactly once, and a failed broadcast
\* ends the process with exit code 1.
C11_BroadcastOnceForOneDevice ==
  /\ Issued("broadcast") => Cardinality(C11_Entries(devices_out)) = 1
  /\ (Exited /\ logged \cap {"no_device", "multiple_devices"} # {}) =>
        (exit_status = 1 /\ ~Issued("broadcast"))
  /\ TimesIssued("broadcast") <= 1
  /\ (Exited /\ <<"broadcast", "fail">> \in faults) => exit_status = 1

\* the messages of the fatal conditions: those passed to die and the two
\* reported by get_usb_device
C12_Fatal == DieMessages \cup {"no_usb_device", "usb_unhealthy"}

\* C12: every fatal precondition or unrecoverable failure detected by the
\* Wireless Connector terminates the process with exit code 1, and the exit
\* is reached through cleanup, never directly.
C12_FatalExitsThroughCleanup ==
  (Exited /\ Uninterrupted /\ logged \cap C12_Fatal # {}) => (exit_status = 1 /\ cleanup_done)

\* C13: each saved-setting snapshot (original_stay_awake,
\* original_lockscreen) is populated exactly once (by the one `settings get`
\* of the run, never again), the write that overrides the corresponding
\* setting never happens before the snapshot is populated, and a failed
\* read populates the snapshot with "0" rather than leaving it unset.
C13_SnapshotOnceBeforeOverride ==
  /\ TimesIssued("get_stay_awake") <= 1
  /\ TimesIssued("get_lockscreen") <= 1
  /\ device_info.original_stay_awake # None => Issued("get_stay_awake")
  /\ device_info.original_lockscreen # None => Issued("get_lockscreen")
  /\ Issued("get_lockscreen") => device_info.original_stay_awake # None
  /\ Issued("put_stay_awake_1") =>
        (IssuedBefore("get_stay_awake", "put_stay_awake_1")
         /\ device_info.original_stay_awake # None)
  /\ Issued("put_lockscreen_1") =>
        (IssuedBefore("get_lockscreen", "put_lockscreen_1")
         /\ device_info.original_lockscreen # None)
  /\ (<<"get_stay_awake", "fail">> \in faults
      /\ (Issued("get_lockscreen") \/ (Uninterrupted /\ ~Reporting)))
       => device_info.original_stay_awake = "0"
  /\ (<<"get_lockscreen", "fail">> \in faults
      /\ (Issued("put_lockscreen_1") \/ (Uninterrupted /\ ~Reporting)))
       => device_info.original_lockscreen = "0"

\* both overrides written after a failed read of stay_awake and a successful
\* read of lockscreen.disabled
C13_Witness ==
  /\ Issued("put_stay_awake_1")
  /\ Issued("put_lockscreen_1")
  /\ <<"get_stay_awake", "fail">> \in faults
  /\ "lockscreen" \in readOk
  /\ device_info.original_stay_awake = "0"

\* the WiFi check found WiFi off, not connected, or its command failing
C14_CheckFailed ==
  \/ \E o \in WifiOutputs : <<"wifi_on", o>> \in faults
  \/ \E o \in DumpsysOutputs : <<"dumpsys_wifi", o>> \in faults

\* C14: when the WiFi precondition check finds WiFi off, WiFi not connected
\* or the diagnostic command failing, the run goes on to nothing but the
\* report, cleanup and the exit: none of the later steps (IP discovery, mode
\* switch, connect, mirroring) is executed; unless a signal ends the run
\* first, the error is reported and the process ends with status 1.
C14_WifiFailureStopsRun ==
  C14_CheckFailed =>
    /\ pc \in {"reporting"} \cup CleanupPcs \cup {"exited"}
    /\ (Uninterrupted /\ ~Reporting) =>
         logged \cap {"wifi_check_failed", "wifi_off", "wifi_not_connected"} # {}
    /\ (Uninterrupted /\ Exited) => exit_status = 1
    /\ ~Issued("ip_addr") /\ ~Issued("ifconfig") /\ ~Issued("tcpip")
    /\ ~IssuedBefore("wifi_on", "connect")
    /\ ~Issued("echo_ok") /\ ~Issued("scrcpy")

\* the run has ended after `dumpsys wifi` reported WiFi not connected
C14_Witness ==
  /\ <<"dumpsys_wifi", "Wi-Fi is disabled">> \in faults
  /\ Exited
  /\ exit_status = 1
  /\ "wifi_not_connected" \in logged

\* a rotation command failed
C15_RotationFailed ==
  \/ <<"put_accelerometer_rotation_0", "fail">> \in faults
  \/ <<"put_user_rotation", "fail">> \in faults

\* C15: when a rotation value was requested and a rotation command fails,
\* the warning is reported before the mirroring tool is launched, the tool
\* is launched in every run that no signal ends first, and the failure path
\* (die, exit code 1) is not taken; when no rotation was requested, no
\* rotation command is issued.
C15_RotationFailureNonFatal ==
  /\ C15_RotationFailed =>
       /\ device_info.rotation # NoRotation
       /\ (Launched \/ pc = "launch_scrcpy") =>
            {"rotation_failed", "rotation_default"} \subseteq logged
       /\ logged \cap DieMessages = {}
       /\ exit_status # 1
       /\ Launched \/ pc \in {"reporting", "launch_scrcpy"} \/ (sigCount > 0 /\ cleanup_done)
       /\ (Exited /\ sigCount = 0) => Launched
  /\ device_info.rotation = NoRotation =>
       /\ ~Issued("put_accelerometer_rotation_0")
       /\ ~Issued("put_user_rotation")

\* the mirroring tool ran and the process ended with status 0 after the
\* first rotation command had failed
C15_Witness ==
  /\ <<"put_accelerometer_rotation_0", "fail">> \in faults
  /\ "rotation_default" \in logged
  /\ Launched
  /\ Exited
  /\ exit_status = 0

\* a restoration command failed (for the sleep trigger: both key events)
C16_RestoreFailed ==
  \/ <<"restore_stay_awake", "fail">> \in faults
  \/ <<"keyevent_power", "fail">> \in faults
  \/ <<"restore_lockscreen", "fail">> \in faults

\* C16: within restore_device_settings a failed stay_awake restore, a
\* failed sleep trigger or a failed lockscreen restore is logged, the
\* remaining restoration steps are still attempted, and the process exit
\* code stays the one passed to cleanup.
C16_RestoreFailuresNeverEscalate ==
  /\ <<"restore_stay_awake", "fail">> \in faults =>
       /\ "restore_stay_awake_failed" \in logged
       /\ pc = "restore_sleep" \/ Issued("keyevent_sleep")
  /\ <<"keyevent_power", "fail">> \in faults =>
       /\ "sleep_failed" \in logged
       /\ device_info.original_lockscreen # None =>
            (pc = "restore_lockscreen" \/ Issued("restore_lockscreen"))
  /\ <<"restore_lockscreen", "fail">> \in faults =>
       "restore_lockscreen_failed" \in logged
  /\ C16_RestoreFailed =>
       /\ pc \in CleanupPcs \cup {"exited"}
       /\ Exited => exit_status = exit_code

\* all three restoration steps failed during a cleanup started by a signal,
\* and the process ended with status 0
C16_Witness ==
  /\ <<"restore_stay_awake", "fail">> \in faults
  /\ <<"keyevent_power", "fail">> \in faults
  /\ <<"restore_lockscreen", "fail">> \in faults
  /\ Exited
  /\ exit_status = 0

\* the listing has a network-addressed identifier in state "device"
C17_WirelessListed ==
  \E i \in DOMAIN devices_out :
    /\ devices_out[i] # BlankLine
    /\ devices_out[i].id.port # NoPort
    /\ devices_out[i].state = "device"

\* the commands of USB discovery, daemon reset, WiFi check, IP discovery,
\* transport mode switch and connect
C17_Skipped == {"kill-server", "start-server", "usb_echo_ok", "wifi_on", "dumpsys_wifi",
                "ip_addr", "ifconfig", "tcpip", "connect"}

\* C17: when a network-addressed, ready device is already listed by
\* `adb devices` and the mode is wireless, the connector goes directly to
\* the mirroring session: no USB discovery, daemon reset, WiFi check, IP
\* discovery, transport mode switch or connect command is issued.
C17_ShortcutSkipsSetup ==
  /\ (cmds = <<"devices">> /\ device_info.mode = "wireless" /\ C17_WirelessListed) =>
       /\ Truthy(wireless_id) \/ pc = "scan_wireless" \/ (sigCount > 0 /\ cleanup_done)
       /\ path = "shortcut" \/ pc \in {"scan_wireless", "detected_wireless"}
            \/ (sigCount > 0 /\ cleanup_done)
       /\ sigCount = 0 => pc \in {"scan_wireless", "detected_wireless", "start_scrcpy"}
  /\ path = "shortcut" =>
       /\ cmds # <<>> /\ cmds[1] = "devices"
       /\ \A c \in C17_Skipped : ~Issued(c)
       /\ Launched => IssuedBefore("devices", "scrcpy")

\* the mirroring tool was launched on the shortcut path
C17_Witness ==
  /\ path = "shortcut"
  /\ Launched
  /\ target_device.name = "192.168.1.5"

\* C18: during restoration KEYCODE_POWER is sent if and only if
\* KEYCODE_SLEEP failed, each trigger at most once, and the sleep trigger is
\* issued after the stay_awake restore and before the lockscreen restore.
C18_PowerIffSleepFailed ==
  /\ Issued("keyevent_power") => <<"keyevent_sleep", "fail">> \in faults
  /\ <<"keyevent_sleep", "fail">> \in faults =>
       (pc = "restore_power" \/ Issued("keyevent_power"))
  /\ TimesIssued("keyevent_sleep") <= 1
  /\ TimesIssued("keyevent_power") <= 1
  /\ Issued("keyevent_power") => IssuedBefore("keyevent_sleep", "keyevent_power")
  /\ \A t \in {"keyevent_sleep", "keyevent_power"} :
       /\ (Issued("restore_stay_awake") /\ Issued(t)) =>
             IssuedBefore("restore_stay_awake", t)
       /\ ~IssuedBefore("restore_lockscreen", t)
  /\ Issued("restore_lockscreen") => Issued("keyevent_sleep")

\* KEYCODE_SLEEP failed, KEYCODE_POWER was sent, between the two restores
C18_Witness ==
  /\ Issued("keyevent_power")
  /\ IssuedBefore("restore_stay_awake", "keyevent_sleep")
  /\ IssuedBefore("keyevent_power", "restore_lockscreen")

\* C19: on the wireless shortcut path, the target passed to the mirroring
\* tool and to restoration (device_ip:port) is identical to the identifier
\* (address:port) of the attached wireless device found in the device list.
C19_ShortcutTargetIsAttachedId ==
  path = "shortcut" =>
    /\ Issued("echo_ok") => target_device = wireless_id
    /\ cleanup_done => cleanup_target = wireless_id

\* C20: connect_device always ends by returning success or failure after at
\* most MAX_RETRIES attempts: no failure of a command issued during an
\* attempt (connect, the shell check, the device listing after a failed
\* attempt) leaves it as an error before the attempts are exhausted.
C20_NoFailureEscapesConnect ==
  /\ attempts <= MAX_RETRIES
  /\ ConnectEnded => ConnectReturned

\* the commands of the WiFi check, IP discovery, transport mode switch and
\* connect
C21_WirelessOnly == {"wifi_on", "dumpsys_wifi", "ip_addr", "ifconfig", "tcpip", "connect"}

\* C21: in USB-only mode (a run started with -u) the connector never issues the WiFi check, IP
\* discovery, transport mode switch or connect commands, and the target
\* used for verification, mirroring and restoration is the USB device
\* identifier returned by discovery.
C21_UsbOnlyUsesUsbId ==
  args.usb =>
    /\ \A c \in C21_WirelessOnly : ~Issued(c)
    /\ Issued("echo_ok") =>
         /\ IssuedBefore("usb_echo_ok", "echo_ok")
         /\ Truthy(usb_id)
         /\ target_device = usb_id
    /\ restoreCount > 0 => (Truthy(usb_id) /\ cleanup_target = usb_id)
    /\ (cleanup_done /\ Issued("echo_ok")) => restoreCount > 0

====
